---- MODULE Spec2Model ----
(***************************************************************************)
(* Model of the chess backend: the Game domain entity, the game service    *)
(* over the MongoDB game collection, and the auth service over the Redis   *)
(* session store with the HTTP middleware in front of the game routes.     *)
(*                                                                         *)
(* Three specifications share the module:                                  *)
(*   SpecDomain  the methods of one Game object called in any order        *)
(*   Spec        game service requests (read, then write) interleaved on   *)
(*               the game collection                                       *)
(*   SpecAuth    auth service requests interleaved on the session store,   *)
(*               with a clock                                              *)
(***************************************************************************)
EXTENDS Integers, Sequences, FiniteSets, TLC

(***************************************************************************)
(* Bounds.                                                                 *)
(***************************************************************************)
MaxPlayers == 3      \* player (user) ObjectIDs are 1..MaxPlayers
MaxGames == 1        \* game ObjectIDs handed out by primitive.NewObjectID
MaxMoves == 2        \* longest move list explored
NumReqs == 2         \* game service requests in flight at once
MaxUsers == 2        \* user ObjectIDs handed out by primitive.NewObjectID
MaxSessions == 2     \* session IDs handed out by generateSessionID
MaxTime == 4         \* the clock runs 0..MaxTime
MaxDepth == 2        \* nested FindByID -> Delete calls the goroutine stack holds
NumAuthReqs == 2     \* auth service requests in flight at once (SpecUsers)
MaxPathLen == 2      \* segments of a request path below /api/game
MaxPage == 2         \* page numbers a listing is asked for
MaxLimit == 2        \* page sizes a listing is asked for

SessionTTL == 2      \* authService.sessionTTL (24h), in clock units of 12h

NilObjectID == 0     \* primitive.NilObjectID, the zero ObjectID

Players == 1..MaxPlayers
PlayerIDs == 0..MaxPlayers          \* request input, the zero ID included
GameIDs == 1..MaxGames
GameIDInputs == 0..MaxGames
Reqs == 1..NumReqs
UserIDs == 1..MaxUsers
SessionIDs == 1..MaxSessions
AuthReqs == 1..NumAuthReqs
SeqReqs == {1}                      \* SpecAuth: the requests come one at a time
UserIDInputs == 0..MaxUsers         \* request input, the zero ID included

Froms == {"", "e2"}                 \* request input: from square
Tos == {"", "e4", "e5"}             \* request input: to square
Seeders == {1}                      \* who creates the stored game: player IDs are
                                    \* only compared, so one creator stands for all
Pieces == {"pawn"}
Notations == {"e4"}

\* Session IDs are numbered; 0 is the empty string and MaxSessions + 1 a token
\* that generateSessionID never handed out.
EmptyToken == 0
Tokens == 0..(MaxSessions + 1)
NoCookie == -1                      \* the request carries no session_id cookie
Cookies == {NoCookie} \cup Tokens
Usernames == {"", "al", "alice", "bob"}
Passwords == {"", "short", "secret1"}
NewPasswords == Passwords \cup {"secret2"}    \* ChangePassword: old and new password

\* domain/game/entity.go: GameStatus and GameResult
GameStatusWaiting == "waiting"
GameStatusActive == "active"
GameStatusFinished == "finished"
GameStatusAbandoned == "abandoned"
GameResultWhiteWins == "white_wins"
GameResultBlackWins == "black_wins"
GameResultDraw == "draw"
GameResultAbandoned == "abandoned"
GameResults == {GameResultWhiteWins, GameResultBlackWins, GameResultDraw, GameResultAbandoned}

StartingFEN == "rnbqkbnr/pppppppp/8/8/8/8/PPPPPPPP/RNBQKBNR w KQkq - 0 1"

VARIABLES
    g,            \* SpecDomain: the Game object, or NoGame before NewGame
    last,         \* SpecDomain: the last method call, its argument, error and the object before it
    collection,   \* Spec: the games collection, GameID -> document or NoGame
    nextID,       \* Spec: the next ObjectID primitive.NewObjectID hands out for a game
    inflight,     \* Spec: per request slot, the entity a request holds between FindByID and Update
    resp,         \* Spec: what the last step returned to its caller (NoResp: nothing returned)
    now,          \* SpecAuth: the clock, time.Now()
    users,        \* SpecAuth: the users collection, a set of documents
    nextUID,      \* SpecAuth: the next ObjectID primitive.NewObjectID hands out for a user
    kv,           \* SpecAuth: Redis keys session:<id>, SessionID -> value with expiry, or NoSession
    usets,        \* SpecAuth: Redis sets user_sessions:<user>, UserID -> members with expiry, or NoSet
    owner,        \* SpecAuth: history, the user each session ID was issued to (NilObjectID: not issued)
    areq,         \* SpecAuth: per request slot, where an auth request stands and what it holds
    aresp,        \* SpecAuth: what the last step returned to its caller (NoAResp: nothing returned)
    routed        \* SpecRoutes: the last request to /api/game and the handler the router gave it to

varsDomain == <<g, last>>
varsGame == <<collection, nextID, inflight, resp>>
varsAuth == <<now, users, nextUID, kv, usets, owner, areq, aresp>>
varsHttp == <<routed>>

\* What a step of one specification leaves alone.
OnlyDomain == UNCHANGED <<varsGame, varsAuth, varsHttp>>
OnlyGame == UNCHANGED <<varsDomain, varsAuth, varsHttp>>
OnlyAuth == UNCHANGED <<varsDomain, varsGame, varsHttp>>
OnlyHttp == UNCHANGED <<varsDomain, varsGame, varsAuth>>

(***************************************************************************)
(* The Game entity.  Result "" and FinishedAt "nil" are Go's zero values;  *)
(* CreatedAt and UpdatedAt are left out, no operation reads them.          *)
(***************************************************************************)
NoGame == [ID |-> NilObjectID]

Move(from, to, piece, player, notation) ==
    [From |-> from, To |-> to, Piece |-> piece, Player |-> player, Notation |-> notation]

Ret(e, gm) == [err |-> e, g |-> gm]

NewGame(id, whitePlayerID) ==
    IF whitePlayerID = NilObjectID
    THEN Ret("white player ID cannot be empty", NoGame)
    ELSE Ret("", [ID |-> id,
                  WhitePlayer |-> whitePlayerID,
                  BlackPlayer |-> NilObjectID,
                  Status |-> GameStatusWaiting,
                  Result |-> "",
                  CurrentTurn |-> "white",
                  Moves |-> <<>>,
                  Board |-> StartingFEN,
                  FinishedAt |-> "nil"])

JoinGameNoSelfCheck(gm, blackPlayerID) ==
    IF blackPlayerID = NilObjectID THEN Ret("black player ID cannot be empty", gm)
    ELSE IF gm.Status # GameStatusWaiting THEN Ret("game is not waiting for players", gm)
    ELSE Ret("", [gm EXCEPT !.BlackPlayer = blackPlayerID, !.Status = GameStatusActive])

JoinGameNoBlack(gm, blackPlayerID) ==
    IF blackPlayerID = NilObjectID THEN Ret("black player ID cannot be empty", gm)
    ELSE IF gm.Status # GameStatusWaiting THEN Ret("game is not waiting for players", gm)
    ELSE IF gm.WhitePlayer = blackPlayerID THEN Ret("player cannot play against themselves", gm)
    ELSE Ret("", [gm EXCEPT !.Status = GameStatusActive])

JoinGame(gm, blackPlayerID) ==
    IF blackPlayerID = NilObjectID THEN Ret("black player ID cannot be empty", gm)
    ELSE IF gm.Status # GameStatusWaiting THEN Ret("game is not waiting for players", gm)
    ELSE IF gm.WhitePlayer = blackPlayerID THEN Ret("player cannot play against themselves", gm)
    ELSE Ret("", [gm EXCEPT !.BlackPlayer = blackPlayerID, !.Status = GameStatusActive])

OtherTurn(turn) == IF turn = "white" THEN "black" ELSE "white"

MakeMoveNoTurnCheck(gm, playerID, from, to, piece, notation) ==
    IF gm.Status # GameStatusActive THEN Ret("game is not active", gm)
    ELSE LET expectedPlayer == IF gm.CurrentTurn = "white" THEN "white" ELSE "black"
         IN  Ret("", [gm EXCEPT
                        !.Moves = Append(@, Move(from, to, piece, expectedPlayer, notation)),
                        !.CurrentTurn = OtherTurn(@)])

MakeMoveOverwrite(gm, playerID, from, to, piece, notation) ==
    IF gm.Status # GameStatusActive THEN Ret("game is not active", gm)
    ELSE IF gm.CurrentTurn = "white" /\ gm.WhitePlayer # playerID THEN Ret("it's not your turn", gm)
    ELSE IF gm.CurrentTurn = "black" /\ gm.BlackPlayer # playerID THEN Ret("it's not your turn", gm)
    ELSE LET expectedPlayer == IF gm.CurrentTurn = "white" THEN "white" ELSE "black"
         IN  Ret("", [gm EXCEPT
                        !.Moves = <<Move(from, to, piece, expectedPlayer, notation)>>,
                        !.CurrentTurn = OtherTurn(@)])

\* Game.MakeMove that leaves the turn with the player who moved
MakeMoveKeepsTurn(gm, playerID, from, to, piece, notation) ==
    IF gm.Status # GameStatusActive THEN Ret("game is not active", gm)
    ELSE IF gm.CurrentTurn = "white" /\ gm.WhitePlayer # playerID THEN Ret("it's not your turn", gm)
    ELSE IF gm.CurrentTurn = "black" /\ gm.BlackPlayer # playerID THEN Ret("it's not your turn", gm)
    ELSE LET expectedPlayer == IF gm.CurrentTurn = "white" THEN "white" ELSE "black"
         IN  Ret("", [gm EXCEPT
                        !.Moves = Append(@, Move(from, to, piece, expectedPlayer, notation))])

\* Game.MakeMove that writes the square the piece went to into the board
MakeMoveOnBoard(gm, playerID, from, to, piece, notation) ==
    IF gm.Status # GameStatusActive THEN Ret("game is not active", gm)
    ELSE IF gm.CurrentTurn = "white" /\ gm.WhitePlayer # playerID THEN Ret("it's not your turn", gm)
    ELSE IF gm.CurrentTurn = "black" /\ gm.BlackPlayer # playerID THEN Ret("it's not your turn", gm)
    ELSE LET expectedPlayer == IF gm.CurrentTurn = "white" THEN "white" ELSE "black"
         IN  Ret("", [gm EXCEPT
                        !.Moves = Append(@, Move(from, to, piece, expectedPlayer, notation)),
                        !.Board = to,
                        !.CurrentTurn = OtherTurn(@)])

MakeMove(gm, playerID, from, to, piece, notation) ==
    IF gm.Status # GameStatusActive THEN Ret("game is not active", gm)
    ELSE IF gm.CurrentTurn = "white" /\ gm.WhitePlayer # playerID THEN Ret("it's not your turn", gm)
    ELSE IF gm.CurrentTurn = "black" /\ gm.BlackPlayer # playerID THEN Ret("it's not your turn", gm)
    ELSE LET expectedPlayer == IF gm.CurrentTurn = "white" THEN "white" ELSE "black"
         IN  Ret("", [gm EXCEPT
                        !.Moves = Append(@, Move(from, to, piece, expectedPlayer, notation)),
                        !.CurrentTurn = OtherTurn(@)])

\* Game.ResignGame that gives the game to the player who resigns
ResignGameWinnerResigns(gm, playerID) ==
    IF gm.Status # GameStatusActive THEN Ret("game is not active", gm)
    ELSE IF gm.WhitePlayer = playerID
         THEN Ret("", [gm EXCEPT !.Status = GameStatusFinished,
                                 !.Result = GameResultWhiteWins, !.FinishedAt = "set"])
    ELSE IF gm.BlackPlayer = playerID
         THEN Ret("", [gm EXCEPT !.Status = GameStatusFinished,
                                 !.Result = GameResultBlackWins, !.FinishedAt = "set"])
    ELSE Ret("player is not part of this game", gm)

ResignGame(gm, playerID) ==
    IF gm.Status # GameStatusActive THEN Ret("game is not active", gm)
    ELSE IF gm.WhitePlayer = playerID
         THEN Ret("", [gm EXCEPT !.Status = GameStatusFinished,
                                 !.Result = GameResultBlackWins, !.FinishedAt = "set"])
    ELSE IF gm.BlackPlayer = playerID
         THEN Ret("", [gm EXCEPT !.Status = GameStatusFinished,
                                 !.Result = GameResultWhiteWins, !.FinishedAt = "set"])
    ELSE Ret("player is not part of this game", gm)

FinishGameNoStatusCheck(gm, result) ==
    Ret("", [gm EXCEPT !.Status = GameStatusFinished, !.Result = result, !.FinishedAt = "set"])

FinishGame(gm, result) ==
    IF gm.Status # GameStatusActive THEN Ret("game is not active", gm)
    ELSE Ret("", [gm EXCEPT !.Status = GameStatusFinished, !.Result = result, !.FinishedAt = "set"])

\* Game.IsPlayerInGame that takes everybody for a player
IsPlayerInGameAny(gm, playerID) == TRUE

IsPlayerInGame(gm, playerID) == gm.WhitePlayer = playerID \/ gm.BlackPlayer = playerID

IsPrefix(s, t) == Len(s) <= Len(t) /\ SubSeq(t, 1, Len(s)) = s

(***************************************************************************)
(* SpecDomain: one Game object, its methods called in any order.           *)
(***************************************************************************)
NoCall == [op |-> "none", PlayerID |-> NilObjectID, err |-> "", pre |-> NoGame]

Call(op, p, r) == [op |-> op, PlayerID |-> p, err |-> r.err, pre |-> g]

DomNewGame ==
    /\ OnlyDomain
    /\ g = NoGame
    /\ \E w \in PlayerIDs :
         LET r == NewGame(1, w)
         IN  /\ g' = r.g
             /\ last' = Call("NewGame", w, r)

DomJoinGame ==
    /\ OnlyDomain
    /\ g # NoGame
    /\ \E p \in PlayerIDs :
         LET r == JoinGame(g, p)
         IN  /\ g' = r.g
             /\ last' = Call("JoinGame", p, r)

DomMakeMove ==
    /\ OnlyDomain
    /\ g # NoGame
    /\ \E p \in PlayerIDs, from \in Froms, to \in Tos, piece \in Pieces, notation \in Notations :
         LET r == MakeMove(g, p, from, to, piece, notation)
         IN  /\ Len(r.g.Moves) <= MaxMoves
             /\ g' = r.g
             /\ last' = Call("MakeMove", p, r)

DomResignGame ==
    /\ OnlyDomain
    /\ g # NoGame
    /\ \E p \in PlayerIDs :
         LET r == ResignGame(g, p)
         IN  /\ g' = r.g
             /\ last' = Call("ResignGame", p, r)

DomFinishGame ==
    /\ OnlyDomain
    /\ g # NoGame
    /\ \E result \in GameResults :
         LET r == FinishGame(g, result)
         IN  /\ g' = r.g
             /\ last' = Call("FinishGame", NilObjectID, r)

(***************************************************************************)
(* The game repository over the MongoDB collection.  A document holds the  *)
(* fields bson marshals; a field that omitempty leaves out decodes to the  *)
(* zero value, so an absent field and a zero field are the same here.      *)
(***************************************************************************)
\* $set of the marshalled entity: omitempty fields (black_player, result,
\* finished_at) are written only when they are not zero.
BsonSet(doc, gm) ==
    [ID |-> doc.ID,
     WhitePlayer |-> gm.WhitePlayer,
     BlackPlayer |-> IF gm.BlackPlayer = NilObjectID THEN doc.BlackPlayer ELSE gm.BlackPlayer,
     Status |-> gm.Status,
     Result |-> IF gm.Result = "" THEN doc.Result ELSE gm.Result,
     CurrentTurn |-> gm.CurrentTurn,
     Moves |-> gm.Moves,
     Board |-> gm.Board,
     FinishedAt |-> IF gm.FinishedAt = "nil" THEN doc.FinishedAt ELSE gm.FinishedAt]

\* collection.UpdateOne(filter {_id}, {$set: g}) without upsert: no match, no change.
UpdateOne(coll, gm) ==
    IF gm.ID \in GameIDs /\ coll[gm.ID] # NoGame
    THEN [coll EXCEPT ![gm.ID] = BsonSet(@, gm)]
    ELSE coll

InsertOne(coll, gm) == [coll EXCEPT ![gm.ID] = gm]

\* gameRepository.Save: inserts only an entity whose ID is zero, under a fresh ID;
\* any other entity goes to UpdateOne.
Save(coll, gm, fresh) ==
    IF gm.ID = NilObjectID
    THEN InsertOne(coll, [gm EXCEPT !.ID = fresh])
    ELSE UpdateOne(coll, gm)

\* gameRepository.FindByID
FindByID(coll, id) ==
    IF id \in GameIDs /\ coll[id] # NoGame
    THEN Ret("", coll[id])
    ELSE Ret("game not found", NoGame)

\* gameRepository.Update
Update(coll, gm) == UpdateOne(coll, gm)

(***************************************************************************)
(* Spec: the game service.  A request that changes a game reads it         *)
(* (FindByID), runs the domain method on its copy and writes the copy back *)
(* (Update).  The domain method is local to the request, so it is taken in *)
(* the step of the read; between that step and the Update the request      *)
(* holds the changed copy in its slot, and other requests may run.         *)
(***************************************************************************)
NoResp == [op |-> "none", err |-> "", GameID |-> NilObjectID, PlayerID |-> NilObjectID,
           Game |-> NoGame, Moves |-> <<>>, Games |-> <<>>, Total |-> 0, Page |-> 0, Limit |-> 0]
Resp(op, e, id, p) == [NoResp EXCEPT !.op = op, !.err = e, !.GameID = id, !.PlayerID = p]

\* What GetGame and GetGameHistory return besides the error: the game, the moves
View(op, id, p, gm, moves) == [Resp(op, "", id, p) EXCEPT !.Game = gm, !.Moves = moves]

Idle == [op |-> "idle", PlayerID |-> NilObjectID, ent |-> NoGame, stale |-> FALSE]
Held(op, p, gm) == [op |-> op, PlayerID |-> p, ent |-> gm, stale |-> FALSE]

\* A write to document id makes every other copy of it held by a request stale.
MarkStale(fl, r, id) ==
    [q \in Reqs |-> IF q # r /\ fl[q].op # "idle" /\ fl[q].ent.ID = id
                    THEN [fl[q] EXCEPT !.stale = TRUE]
                    ELSE IF q = r THEN Idle ELSE fl[q]]

\* A new request takes the first free slot (the slots are interchangeable).
FreeSlot(r) == inflight[r] = Idle /\ \A q \in Reqs : q < r => inflight[q] # Idle

\* gameService.CreateGame, as called with PlayerID p
CreateGameCall(p) ==
    IF p = NilObjectID
    THEN /\ resp' = Resp("CreateGame", "player ID is required", NilObjectID, p)
         /\ UNCHANGED <<collection, nextID, inflight>>
    ELSE /\ nextID <= MaxGames
         /\ LET newGame == NewGame(nextID, p).g
            IN  /\ collection' = Save(collection, newGame, nextID)
                /\ resp' = Resp("CreateGame", "", newGame.ID, p)
         /\ nextID' = nextID + 1
         /\ UNCHANGED inflight

CreateGame ==
    /\ OnlyGame
    /\ \E p \in PlayerIDs : CreateGameCall(p)

\* gameRepository.Save called with an entity that has no ID yet (the insert
\* path of Save): NewGame's entity with its ID cleared.  No service code does
\* this; it is how a document comes to be in the collection.
RepoSaveNew ==
    /\ OnlyGame
    /\ \E p \in Seeders :
        /\ nextID <= MaxGames
        /\ collection' = Save(collection, [NewGame(nextID, p).g EXCEPT !.ID = NilObjectID], nextID)
        /\ nextID' = nextID + 1
        /\ resp' = NoResp
        /\ UNCHANGED inflight

\* gameService.JoinGame that writes the join before it looks at the error of
\* the domain call
JoinGameFindWritesFirst(r) ==
    /\ OnlyGame
    /\ FreeSlot(r)
    /\ \E id \in GameIDInputs, p \in PlayerIDs :
         IF id = NilObjectID
         THEN /\ resp' = Resp("JoinGame", "game ID is required", NilObjectID, NilObjectID)
              /\ UNCHANGED <<collection, nextID, inflight>>
         ELSE IF p = NilObjectID
         THEN /\ resp' = Resp("JoinGame", "player ID is required", NilObjectID, NilObjectID)
              /\ UNCHANGED <<collection, nextID, inflight>>
         ELSE LET f == FindByID(collection, id)
                  d == JoinGame(f.g, p)
              IN  IF f.err # ""
                  THEN /\ resp' = Resp("JoinGame", "failed to find game", id, NilObjectID)
                       /\ UNCHANGED <<collection, nextID, inflight>>
                  ELSE IF d.err # ""
                  THEN /\ resp' = Resp("JoinGame", d.err, id, p)
                       /\ collection' = Update(collection, [f.g EXCEPT !.BlackPlayer = p])
                       /\ UNCHANGED <<nextID, inflight>>
                  ELSE /\ inflight' = [inflight EXCEPT ![r] = Held("JoinGame", p, d.g)]
                       /\ resp' = NoResp
                       /\ UNCHANGED <<collection, nextID>>

\* gameService.JoinGame up to the domain call
JoinGameFind(r) ==
    /\ OnlyGame
    /\ FreeSlot(r)
    /\ \E id \in GameIDInputs, p \in PlayerIDs :
         IF id = NilObjectID
         THEN /\ resp' = Resp("JoinGame", "game ID is required", NilObjectID, NilObjectID)
              /\ UNCHANGED <<collection, nextID, inflight>>
         ELSE IF p = NilObjectID
         THEN /\ resp' = Resp("JoinGame", "player ID is required", NilObjectID, NilObjectID)
              /\ UNCHANGED <<collection, nextID, inflight>>
         ELSE LET f == FindByID(collection, id)
                  d == JoinGame(f.g, p)
              IN  IF f.err # ""
                  THEN /\ resp' = Resp("JoinGame", "failed to find game", id, NilObjectID)
                       /\ UNCHANGED <<collection, nextID, inflight>>
                  ELSE IF d.err # ""
                  THEN /\ resp' = Resp("JoinGame", d.err, id, p)
                       /\ UNCHANGED <<collection, nextID, inflight>>
                  ELSE /\ inflight' = [inflight EXCEPT ![r] = Held("JoinGame", p, d.g)]
                       /\ resp' = NoResp
                       /\ UNCHANGED <<collection, nextID>>

\* gameService.MakeMove up to the domain call
MakeMoveFind(r) ==
    /\ OnlyGame
    /\ FreeSlot(r)
    /\ \E id \in GameIDInputs, p \in PlayerIDs, from \in Froms, to \in Tos,
          piece \in Pieces, notation \in Notations :
         IF id = NilObjectID
         THEN /\ resp' = Resp("MakeMove", "game ID is required", NilObjectID, NilObjectID)
              /\ UNCHANGED <<collection, nextID, inflight>>
         ELSE IF p = NilObjectID
         THEN /\ resp' = Resp("MakeMove", "player ID is required", NilObjectID, NilObjectID)
              /\ UNCHANGED <<collection, nextID, inflight>>
         ELSE IF from = "" \/ to = ""
         THEN /\ resp' = Resp("MakeMove", "from and to positions are required", NilObjectID, NilObjectID)
              /\ UNCHANGED <<collection, nextID, inflight>>
         ELSE LET f == FindByID(collection, id)
                  d == MakeMove(f.g, p, from, to, piece, notation)
              IN  IF f.err # ""
                  THEN /\ resp' = Resp("MakeMove", "failed to find game", id, NilObjectID)
                       /\ UNCHANGED <<collection, nextID, inflight>>
                  ELSE IF d.err # ""
                  THEN /\ resp' = Resp("MakeMove", d.err, id, p)
                       /\ UNCHANGED <<collection, nextID, inflight>>
                  ELSE /\ Len(d.g.Moves) <= MaxMoves
                       /\ inflight' = [inflight EXCEPT ![r] = Held("MakeMove", p, d.g)]
                       /\ resp' = NoResp
                       /\ UNCHANGED <<collection, nextID>>

\* gameService.ResignGame up to the domain call
ResignGameFind(r) ==
    /\ OnlyGame
    /\ FreeSlot(r)
    /\ \E id \in GameIDInputs, p \in PlayerIDs :
         IF id = NilObjectID
         THEN /\ resp' = Resp("ResignGame", "game ID is required", NilObjectID, NilObjectID)
              /\ UNCHANGED <<collection, nextID, inflight>>
         ELSE IF p = NilObjectID
         THEN /\ resp' = Resp("ResignGame", "player ID is required", NilObjectID, NilObjectID)
              /\ UNCHANGED <<collection, nextID, inflight>>
         ELSE LET f == FindByID(collection, id)
                  d == ResignGame(f.g, p)
              IN  IF f.err # ""
                  THEN /\ resp' = Resp("ResignGame", "failed to find game", id, NilObjectID)
                       /\ UNCHANGED <<collection, nextID, inflight>>
                  ELSE IF d.err # ""
                  THEN /\ resp' = Resp("ResignGame", d.err, id, p)
                       /\ UNCHANGED <<collection, nextID, inflight>>
                  ELSE /\ inflight' = [inflight EXCEPT ![r] = Held("ResignGame", p, d.g)]
                       /\ resp' = NoResp
                       /\ UNCHANGED <<collection, nextID>>

\* gameService.JoinGame / MakeMove / ResignGame from gameRepo.Update on: the
\* held copy is written and the request answers with success.
GameUpdate(r) ==
    /\ OnlyGame
    /\ inflight[r] # Idle
    /\ collection' = Update(collection, inflight[r].ent)
    /\ inflight' = MarkStale(inflight, r, inflight[r].ent.ID)
    /\ resp' = Resp(inflight[r].op, "", inflight[r].ent.ID, inflight[r].PlayerID)
    /\ UNCHANGED nextID

\* gameService.GetGame and gameService.GetGameHistory up to their return
Query(op, id, p) ==
    IF id = NilObjectID THEN Resp(op, "game ID is required", NilObjectID, NilObjectID)
    ELSE IF p = NilObjectID THEN Resp(op, "player ID is required", NilObjectID, NilObjectID)
    ELSE IF FindByID(collection, id).err # ""
         THEN Resp(op, "failed to find game", id, NilObjectID)
    ELSE IF ~IsPlayerInGame(FindByID(collection, id).g, p)
         THEN Resp(op, "player is not authorized to view this game", id, p)
    ELSE IF op = "GetGame"
         THEN View(op, id, p, FindByID(collection, id).g, <<>>)
         ELSE View(op, id, p, NoGame, FindByID(collection, id).g.Moves)

\* gameService.GetGame
GetGame ==
    /\ OnlyGame
    /\ \E id \in GameIDInputs, p \in PlayerIDs :
        /\ resp' = Query("GetGame", id, p)
        /\ UNCHANGED <<collection, nextID, inflight>>

\* gameService.GetGameHistory
GetGameHistory ==
    /\ OnlyGame
    /\ \E id \in GameIDInputs, p \in PlayerIDs :
        /\ resp' = Query("GetGameHistory", id, p)
        /\ UNCHANGED <<collection, nextID, inflight>>

(***************************************************************************)
(* The User entity and the user repository over the MongoDB users          *)
(* collection.  A bcrypt hash is the pair of the algorithm and the         *)
(* password it was made from: CompareHashAndPassword succeeds exactly on   *)
(* that password.  CreatedAt and UpdatedAt are left out.                   *)
(***************************************************************************)
Hash(password) == <<"bcrypt", password>>

NoUser == [ID |-> NilObjectID, Username |-> "", Password |-> <<>>]

URet(e, u) == [err |-> e, user |-> u]

\* user.NewUser
NewUser(id, username, password) ==
    IF username = "" THEN URet("username cannot be empty", NoUser)
    ELSE IF password = "" THEN URet("password cannot be empty", NoUser)
    ELSE IF Len(password) < 6 THEN URet("password must be at least 6 characters", NoUser)
    ELSE URet("", [ID |-> id, Username |-> username, Password |-> Hash(password)])

\* User.ValidatePassword
ValidatePassword(u, password) == u.Password = Hash(password)

\* userRepository.ExistsByUsername
ExistsByUsername(coll, username) == \E u \in coll : u.Username = username

\* userRepository.FindByUsername
FindByUsername(coll, username) ==
    IF ExistsByUsername(coll, username)
    THEN URet("", CHOOSE u \in coll : u.Username = username)
    ELSE URet("user not found", NoUser)

\* userRepository.FindByID
UserFindByID(coll, id) ==
    IF \E u \in coll : u.ID = id
    THEN URet("", CHOOSE u \in coll : u.ID = id)
    ELSE URet("user not found", NoUser)

\* User.UpdatePassword that keeps the password the user had
UpdatePasswordKeeps(u, newPassword) ==
    IF newPassword = "" THEN URet("password cannot be empty", u)
    ELSE IF Len(newPassword) < 6 THEN URet("password must be at least 6 characters", u)
    ELSE URet("", u)

\* User.UpdatePassword
UpdatePassword(u, newPassword) ==
    IF newPassword = "" THEN URet("password cannot be empty", u)
    ELSE IF Len(newPassword) < 6 THEN URet("password must be at least 6 characters", u)
    ELSE URet("", [u EXCEPT !.Password = Hash(newPassword)])

\* userRepository.Update: $set of username and password on the document of
\* the user's ID, under the unique index on username
UserUpdate(coll, u) ==
    IF u.Username = "" THEN [err |-> "username cannot be empty", users |-> coll]
    ELSE IF \E v \in coll : v.ID # u.ID /\ v.Username = u.Username
         THEN [err |-> "duplicate key", users |-> coll]
    ELSE IF ~\E v \in coll : v.ID = u.ID
         THEN [err |-> "user not found", users |-> coll]
    ELSE [err |-> "", users |-> {IF v.ID = u.ID
                                 THEN [v EXCEPT !.Username = u.Username, !.Password = u.Password]
                                 ELSE v : v \in coll}]

\* What authService.Signin checks before it creates a session
CanSignin(coll, username, password) ==
    /\ username # ""
    /\ password # ""
    /\ FindByUsername(coll, username).err = ""
    /\ ValidatePassword(FindByUsername(coll, username).user, password)

\* userRepository.Save on a collection without the unique index
UserSaveNoIndex(coll, u) ==
    IF u.Username = "" THEN [err |-> "username cannot be empty", users |-> coll]
    ELSE [err |-> "", users |-> coll \cup {u}]

\* userRepository.Save: InsertOne under the unique index on username
UserSave(coll, u) ==
    IF u.Username = "" THEN [err |-> "username cannot be empty", users |-> coll]
    ELSE IF \E v \in coll : v.Username = u.Username \/ v.ID = u.ID
         THEN [err |-> "username already exists", users |-> coll]
    ELSE [err |-> "", users |-> coll \cup {u}]

(***************************************************************************)
(* The Session entity and the session repository over Redis.  The value of *)
(* key session:<id> is the JSON of the session (UserID and ExpiresAt;      *)
(* CreatedAt and TTL are stored and never read); exp is the time up to     *)
(* which Redis keeps the key.  RefreshedAt is history: the time of the     *)
(* last Refresh that extended the key, -1 when there was none.             *)
(***************************************************************************)
NoSession == [UserID |-> NilObjectID, ExpiresAt |-> 0, exp |-> 0, RefreshedAt |-> -1]
NoSet == [members |-> {}, exp |-> 0]
NoSess == [ID |-> EmptyToken, UserID |-> NilObjectID, ExpiresAt |-> 0]

SRet(e, s) == [err |-> e, sess |-> s]

\* session.NewSession that adds no TTL to the time of creation
NewSessionNoTTL(id, userID, t, ttl) == [ID |-> id, UserID |-> userID, ExpiresAt |-> t]

\* session.NewSession at time t
NewSession(id, userID, t, ttl) == [ID |-> id, UserID |-> userID, ExpiresAt |-> t + ttl]

\* A session that never expires: IsExpired without the comparison
IsExpiredNever(sess, t) == FALSE

\* Session.IsExpired at time t: time.Now().After(ExpiresAt)
IsExpired(sess, t) == t > sess.ExpiresAt

\* generateSessionID: an ID that was not handed out before
NextSessionID ==
    IF \A s \in SessionIDs : owner[s] # NilObjectID
    THEN MaxSessions + 1
    ELSE CHOOSE s \in SessionIDs :
            owner[s] = NilObjectID /\ \A q \in SessionIDs : q < s => owner[q] # NilObjectID

\* sessionRepository.Save at time t, the session key
SaveKey(keys, sess, t) ==
    LET until == sess.ExpiresAt - t
        ttl == IF until <= 0 THEN SessionTTL ELSE until
    IN  [keys EXCEPT ![sess.ID] = [UserID |-> sess.UserID, ExpiresAt |-> sess.ExpiresAt,
                                   exp |-> t + ttl, RefreshedAt |-> -1]]

\* sessionRepository.Save at time t, the user's set: SAdd and Expire
SaveSet(sets, sess, t) ==
    LET until == sess.ExpiresAt - t
        ttl == IF until <= 0 THEN SessionTTL ELSE until
    IN  [sets EXCEPT ![sess.UserID] = [members |-> @.members \cup {sess.ID}, exp |-> t + ttl]]

\* sessionRepository.FindByID at time t, up to its return or its call of
\* Delete: "session expired" is what it returns once that Delete is back.
SessionFindByID(keys, sessionID, t) ==
    IF sessionID \notin SessionIDs \/ keys[sessionID] = NoSession
    THEN SRet("session not found", NoSess)
    ELSE LET sess == [ID |-> sessionID, UserID |-> keys[sessionID].UserID,
                      ExpiresAt |-> keys[sessionID].ExpiresAt]
         IN  IF IsExpired(sess, t) THEN SRet("session expired", sess) ELSE SRet("", sess)

\* sessionRepository.Exists: EXISTS of the key in Redis
SessionExists(keys, sessionID) == sessionID \in SessionIDs /\ keys[sessionID] # NoSession

\* sessionRepository.Delete, its pipeline: Del of the key and SRem from the set
DelKey(keys, sessionID) == [keys EXCEPT ![sessionID] = NoSession]

SRem(sets, userID, sessionID) ==
    [sets EXCEPT ![userID] = IF @.members \ {sessionID} = {} THEN NoSet
                             ELSE [@ EXCEPT !.members = @ \ {sessionID}]]

\* sessionRepository.Refresh at time t, its pipeline: Expire of the key and of
\* the set; Expire of a key that is gone does nothing.
ExpireKey(keys, sessionID, t, ttl) ==
    IF keys[sessionID] = NoSession THEN keys
    ELSE [keys EXCEPT ![sessionID] = [@ EXCEPT !.exp = t + ttl, !.RefreshedAt = t]]

ExpireSet(sets, userID, t, ttl) ==
    IF sets[userID] = NoSet THEN sets
    ELSE [sets EXCEPT ![userID] = [@ EXCEPT !.exp = t + ttl]]

\* sessionRepository.DeleteByUserID: SMembers of the user's set
SMembers(sets, userID) == IF userID \in UserIDs THEN sets[userID].members ELSE {}

\* DeleteByUserID whose pipeline leaves the session keys alone
DelKeysNone(keys, ids) == keys

\* sessionRepository.DeleteByUserID, its pipeline: Del of every session key read
\* from the set, and Del of the set
DelKeys(keys, ids) == [s \in SessionIDs |-> IF s \in ids THEN NoSession ELSE keys[s]]

DelSet(sets, userID) == [sets EXCEPT ![userID] = NoSet]

\* userRepository.Delete
UserDeleteOne(coll, id) ==
    IF \E u \in coll : u.ID = id
    THEN [err |-> "", users |-> {u \in coll : u.ID # id}]
    ELSE [err |-> "user not found", users |-> coll]

\* Redis drops a key once the clock has passed its expiry.
Purge(store, none, t) == [k \in DOMAIN store |-> IF store[k].exp < t THEN none ELSE store[k]]

(***************************************************************************)
(* The request context of net/http.  A key is a Go interface value: its    *)
(* dynamic type and its value; Value finds an entry only under a key equal *)
(* in both.                                                                *)
(***************************************************************************)
UserIDKey == [type |-> "contextKey", val |-> "user_id"]     \* middleware.go
HandlerKey == [type |-> "string", val |-> "user_id"]        \* handlers.go

EmptyCtx == {}
WithValue(ctx, key, value) == {e \in ctx : e.key # key} \cup {[key |-> key, value |-> value]}

\* ctx.Value(key).(primitive.ObjectID)
CtxValue(ctx, key) ==
    IF \E e \in ctx : e.key = key
    THEN [ok |-> TRUE, val |-> (CHOOSE e \in ctx : e.key = key).value]
    ELSE [ok |-> FALSE, val |-> NilObjectID]

(***************************************************************************)
(* SpecAuth: the auth service and the middleware.  A request takes one     *)
(* step per access to MongoDB or Redis (a pipeline is one access); what it *)
(* computes locally after an access belongs to that step.  Between its     *)
(* steps a request keeps what it read in its slot, other requests run and  *)
(* the clock ticks.                                                        *)
(*   pc "save"      Signup before userRepo.Save                            *)
(*   pc "session"   Signup / Signin before sessionRepo.Save                *)
(*   pc "held"      after FindByID returned the session                    *)
(*   pc "chain"     in Delete called by FindByID (or by ValidateSession)   *)
(*                  for an expired session, before that Delete's FindByID; *)
(*                  depth counts the nested Delete calls                   *)
(*   pc "handler"   past RequireAuth, before the game handler              *)
(*   pc "pipeline"  DeleteUser in DeleteByUserID, before its pipeline      *)
(*   pc "userdel"   DeleteUser before userRepo.Delete                      *)
(*   pc "update"    ChangePassword before userRepo.Update                  *)
(*   pc "overflow"  the goroutine stack is exhausted: the process is dead  *)
(***************************************************************************)
NoAResp == [op |-> "none", sid |-> EmptyToken, err |-> "", UserID |-> NilObjectID,
            status |-> 0, PlayerID |-> NilObjectID, stale |-> FALSE, depth |-> 0,
            old |-> "", new |-> ""]

\* What a service method returned.  stale: the session the request held was
\* deleted by another request meanwhile.  depth: how many times the request
\* found the session key present with its ExpiresAt passed.
AResp(op, sid, e, uid, stale) ==
    [NoAResp EXCEPT !.op = op, !.sid = sid, !.err = e, !.UserID = uid, !.stale = stale]

\* What a protected game route answered: the HTTP status and message, the user
\* RequireAuth validated (NilObjectID: none) and the PlayerID the handler
\* gave to the game service (NilObjectID: the service was not called).
HResp(sid, status, msg, uid, player) ==
    [NoAResp EXCEPT !.op = "CreateGameRoute", !.sid = sid, !.err = msg, !.UserID = uid,
                    !.status = status, !.PlayerID = player]

AIdle == [op |-> "idle", pc |-> "idle", sid |-> EmptyToken, sess |-> NoSess, depth |-> 0,
          stale |-> FALSE, user |-> NoUser, ctx |-> EmptyCtx, ids |-> {},
          old |-> "", new |-> ""]

Alive == \A r \in AuthReqs : areq[r].pc # "overflow"

FreeAuthSlot(r) == areq[r] = AIdle /\ \A q \in AuthReqs : q < r => areq[q] # AIdle

\* Session IDs left for the requests that are on their way to sessionRepo.Save.
CanIssue ==
    NextSessionID + Cardinality({q \in AuthReqs : areq[q].op \in {"Signup", "Signin"}}) <= MaxSessions

\* A step that only answers.
Answer(a) ==
    /\ aresp' = a
    /\ UNCHANGED <<now, users, nextUID, kv, usets, owner, areq>>

\* A step that answers and ends request r.
AnswerEnd(r, a) ==
    /\ aresp' = a
    /\ areq' = [areq EXCEPT ![r] = AIdle]
    /\ UNCHANGED <<now, users, nextUID, kv, usets, owner>>

\* A step after which request r goes on from slot value v.
GoOn(r, v) ==
    /\ areq' = [areq EXCEPT ![r] = v]
    /\ aresp' = NoAResp
    /\ UNCHANGED <<now, users, nextUID, kv, usets, owner>>

\* The error of FindByID as the caller of op hears it: RequireAuth answers
\* 401 "Invalid session" to every error of ValidateSession.
Failed(op, sid, e) ==
    IF op = "RequireAuth"
    THEN HResp(sid, 401, "Invalid session", NilObjectID, NilObjectID)
    ELSE AResp(op, sid, e, NilObjectID, FALSE)

\* The clock, and Redis dropping the keys whose expiry has passed.
Tick ==
    /\ OnlyAuth
    /\ Alive
    /\ now < MaxTime
    /\ now' = now + 1
    /\ kv' = Purge(kv, NoSession, now + 1)
    /\ usets' = Purge(usets, NoSet, now + 1)
    /\ aresp' = NoAResp
    /\ UNCHANGED <<users, nextUID, owner, areq>>

\* authService.Signup up to user.NewUser
SignupCheck(r) ==
    /\ OnlyAuth
    /\ Alive
    /\ FreeAuthSlot(r)
    /\ \E username \in Usernames, password \in Passwords :
         IF username = "" \/ password = ""
         THEN Answer(AResp("Signup", EmptyToken, "username and password are required", NilObjectID, FALSE))
         ELSE IF Len(username) < 3
         THEN Answer(AResp("Signup", EmptyToken, "username must be at least 3 characters long", NilObjectID, FALSE))
         ELSE IF Len(password) < 6
         THEN Answer(AResp("Signup", EmptyToken, "password must be at least 6 characters long", NilObjectID, FALSE))
         ELSE IF ExistsByUsername(users, username)
         THEN Answer(AResp("Signup", EmptyToken, "username already exists", NilObjectID, FALSE))
         ELSE LET n == NewUser(nextUID, username, password)
              IN  IF n.err # ""
                  THEN Answer(AResp("Signup", EmptyToken, n.err, NilObjectID, FALSE))
                  ELSE /\ nextUID <= MaxUsers
                       /\ CanIssue
                       /\ nextUID' = nextUID + 1
                       /\ areq' = [areq EXCEPT ![r] = [AIdle EXCEPT !.op = "Signup", !.pc = "save",
                                                                    !.user = n.user]]
                       /\ aresp' = NoAResp
                       /\ UNCHANGED <<now, users, kv, usets, owner>>

\* authService.Signup: userRepo.Save
SignupSave(r) ==
    /\ OnlyAuth
    /\ Alive
    /\ areq[r].op = "Signup"
    /\ areq[r].pc = "save"
    /\ LET s == UserSave(users, areq[r].user)
       IN  IF s.err # ""
           THEN AnswerEnd(r, AResp("Signup", EmptyToken, s.err, NilObjectID, FALSE))
           ELSE /\ users' = s.users
                /\ areq' = [areq EXCEPT ![r] = [@ EXCEPT !.pc = "session"]]
                /\ aresp' = NoAResp
                /\ UNCHANGED <<now, nextUID, kv, usets, owner>>

\* authService.Signin up to User.ValidatePassword
SigninFind(r) ==
    /\ OnlyAuth
    /\ Alive
    /\ FreeAuthSlot(r)
    /\ \E username \in Usernames, password \in Passwords :
         IF username = "" \/ password = ""
         THEN Answer(AResp("Signin", EmptyToken, "username and password are required", NilObjectID, FALSE))
         ELSE LET f == FindByUsername(users, username)
              IN  IF f.err # "" \/ ~ValidatePassword(f.user, password)
                  THEN Answer(AResp("Signin", EmptyToken, "invalid username or password", NilObjectID, FALSE))
                  ELSE /\ CanIssue
                       /\ GoOn(r, [AIdle EXCEPT !.op = "Signin", !.pc = "session", !.user = f.user])

\* authService.Signup / Signin: session.NewSession and sessionRepo.Save
SessionCreate(r) ==
    /\ OnlyAuth
    /\ Alive
    /\ areq[r].pc = "session"
    /\ NextSessionID <= MaxSessions
    /\ LET newSession == NewSession(NextSessionID, areq[r].user.ID, now, SessionTTL)
       IN  /\ kv' = SaveKey(kv, newSession, now)
           /\ usets' = SaveSet(usets, newSession, now)
           /\ owner' = [owner EXCEPT ![newSession.ID] = newSession.UserID]
           /\ aresp' = AResp(areq[r].op, newSession.ID, "", newSession.UserID, FALSE)
    /\ areq' = [areq EXCEPT ![r] = AIdle]
    /\ UNCHANGED <<now, users, nextUID>>

\* authService.Signup / Signin: sessionRepo.Save returns an error (Redis does
\* not answer, or the pipeline fails) and the service returns it.  The answer
\* names the user the session was for.
SessionSaveFails(r) ==
    /\ OnlyAuth
    /\ Alive
    /\ areq[r].pc = "session"
    /\ AnswerEnd(r, AResp(areq[r].op, EmptyToken, "failed to save session", areq[r].user.ID, FALSE))

\* The first FindByID of a request: the session is not there, is returned, or
\* has expired and FindByID calls Delete.
FirstRead(r, op, sid) ==
    LET f == SessionFindByID(kv, sid, now)
    IN  IF f.err = "session not found"
        THEN Answer(IF op = "Logout" THEN AResp(op, sid, "", NilObjectID, FALSE)
                    ELSE Failed(op, sid, f.err))
        ELSE IF f.err = "session expired"
        THEN GoOn(r, [AIdle EXCEPT !.op = op, !.pc = "chain", !.sid = sid, !.sess = f.sess, !.depth = 1])
        ELSE GoOn(r, [AIdle EXCEPT !.op = op, !.pc = "held", !.sid = sid, !.sess = f.sess])

\* authService.ValidateSession up to the return of sessionRepo.FindByID
ValidateSession(r) ==
    /\ OnlyAuth
    /\ Alive
    /\ FreeAuthSlot(r)
    /\ \E sessionID \in Tokens :
         IF sessionID = EmptyToken
         THEN Answer(AResp("ValidateSession", EmptyToken, "session ID is required", NilObjectID, FALSE))
         ELSE FirstRead(r, "ValidateSession", sessionID)

\* AuthMiddleware.RequireAuth in front of a game route, up to the return of
\* sessionRepo.FindByID in ValidateSession
RequireAuth(r) ==
    /\ OnlyAuth
    /\ Alive
    /\ FreeAuthSlot(r)
    /\ \E cookie \in Cookies :
         IF cookie = NoCookie
         THEN Answer(HResp(EmptyToken, 401, "Authentication required", NilObjectID, NilObjectID))
         ELSE IF cookie = EmptyToken
         THEN Answer(Failed("RequireAuth", EmptyToken, "session ID is required"))
         ELSE FirstRead(r, "RequireAuth", cookie)

\* authService.RefreshSession up to the return of FindByID in sessionRepo.Refresh
RefreshSession(r) ==
    /\ OnlyAuth
    /\ Alive
    /\ FreeAuthSlot(r)
    /\ \E sessionID \in Tokens :
         IF sessionID = EmptyToken
         THEN Answer(AResp("RefreshSession", EmptyToken, "session ID is required", NilObjectID, FALSE))
         ELSE FirstRead(r, "RefreshSession", sessionID)

\* authService.Logout up to the return of FindByID in sessionRepo.Delete
Logout(r) ==
    /\ OnlyAuth
    /\ Alive
    /\ FreeAuthSlot(r)
    /\ \E sessionID \in Tokens :
         IF sessionID = EmptyToken
         THEN Answer(AResp("Logout", EmptyToken, "session ID is required", NilObjectID, FALSE))
         ELSE FirstRead(r, "Logout", sessionID)

\* A deletion of session sid makes every copy of it held by another request stale.
MarkSessionStale(slots, r, sid) ==
    [q \in AuthReqs |-> IF q = r THEN AIdle
                        ELSE IF slots[q].pc = "held" /\ slots[q].sid = sid
                             THEN [slots[q] EXCEPT !.stale = TRUE]
                             ELSE slots[q]]

\* sessionRepo.Delete from its FindByID on, called for a session that FindByID
\* or ValidateSession found expired; the caller answers "session expired"
\* once the Delete is back.  The FindByID in Delete finds the key gone (Delete
\* returns nil), or finds the session expired again and calls Delete again, or
\* returns the session and the pipeline of Delete runs.
DeleteExpired(r) ==
    LET f == SessionFindByID(kv, areq[r].sid, now)
    IN  IF f.err = "session not found"
        THEN AnswerEnd(r, [Failed(areq[r].op, areq[r].sid, "session expired")
                              EXCEPT !.depth = areq[r].depth])
        ELSE IF f.err = "session expired"
        THEN IF areq[r].depth < MaxDepth
             THEN GoOn(r, [areq[r] EXCEPT !.pc = "chain", !.depth = @ + 1])
             ELSE GoOn(r, [areq[r] EXCEPT !.pc = "overflow"])
        ELSE /\ kv' = DelKey(kv, areq[r].sid)
             /\ usets' = SRem(usets, f.sess.UserID, areq[r].sid)
             /\ areq' = MarkSessionStale(areq, r, areq[r].sid)
             /\ aresp' = [Failed(areq[r].op, areq[r].sid, "session expired")
                              EXCEPT !.depth = areq[r].depth]
             /\ UNCHANGED <<now, users, nextUID, owner>>

\* sessionRepo.FindByID called by a Delete that cleans up an expired session
DeleteExpiredRead(r) ==
    /\ OnlyAuth
    /\ Alive
    /\ areq[r].pc = "chain"
    /\ DeleteExpired(r)

\* authService.ValidateSession from sess.IsExpired() on; under RequireAuth a
\* valid session puts the user ID into the request context and the request
\* goes on to the handler.
ValidateIsExpired(r) ==
    /\ OnlyAuth
    /\ Alive
    /\ areq[r].op \in {"ValidateSession", "RequireAuth"}
    /\ areq[r].pc = "held"
    /\ IF IsExpired(areq[r].sess, now)
       THEN DeleteExpired(r)
       ELSE IF areq[r].op = "ValidateSession"
       THEN AnswerEnd(r, AResp("ValidateSession", areq[r].sid, "", areq[r].sess.UserID, areq[r].stale))
       ELSE GoOn(r, [areq[r] EXCEPT !.pc = "handler",
                                    !.ctx = WithValue(EmptyCtx, UserIDKey, areq[r].sess.UserID)])

\* sessionRepo.Refresh: the pipeline
RefreshExpire(r) ==
    /\ OnlyAuth
    /\ Alive
    /\ areq[r].op = "RefreshSession"
    /\ areq[r].pc = "held"
    /\ kv' = ExpireKey(kv, areq[r].sid, now, SessionTTL)
    /\ usets' = ExpireSet(usets, areq[r].sess.UserID, now, SessionTTL)
    /\ areq' = [areq EXCEPT ![r] = AIdle]
    /\ aresp' = AResp("RefreshSession", areq[r].sid, "", NilObjectID, areq[r].stale)
    /\ UNCHANGED <<now, users, nextUID, owner>>

\* sessionRepo.Delete called by Logout: the pipeline
DeletePipeline(r) ==
    /\ OnlyAuth
    /\ Alive
    /\ areq[r].op = "Logout"
    /\ areq[r].pc = "held"
    /\ kv' = DelKey(kv, areq[r].sid)
    /\ usets' = SRem(usets, areq[r].sess.UserID, areq[r].sid)
    /\ areq' = MarkSessionStale(areq, r, areq[r].sid)
    /\ aresp' = AResp("Logout", areq[r].sid, "", NilObjectID, areq[r].stale)
    /\ UNCHANGED <<now, users, nextUID, owner>>

\* A deletion of the sessions ids makes every copy of one of them held by
\* another request stale.
MarkSessionsStale(slots, r, v, ids) ==
    [q \in AuthReqs |-> IF q = r THEN v
                        ELSE IF slots[q].pc = "held" /\ slots[q].sid \in ids
                             THEN [slots[q] EXCEPT !.stale = TRUE]
                             ELSE slots[q]]

\* authService.DeleteUser up to SMembers in sessionRepo.DeleteByUserID; a user
\* without sessions goes straight on to userRepo.Delete.
DeleteUser(r) ==
    /\ OnlyAuth
    /\ Alive
    /\ FreeAuthSlot(r)
    /\ \E userID \in UserIDInputs :
         LET sessionIDs == SMembers(usets, userID)
             held == [AIdle EXCEPT !.op = "DeleteUser", !.user = [NoUser EXCEPT !.ID = userID]]
         IN  IF sessionIDs = {}
             THEN GoOn(r, [held EXCEPT !.pc = "userdel"])
             ELSE GoOn(r, [held EXCEPT !.pc = "pipeline", !.ids = sessionIDs])

\* sessionRepo.DeleteByUserID: the pipeline
DeleteByUserIDPipeline(r) ==
    /\ OnlyAuth
    /\ Alive
    /\ areq[r].op = "DeleteUser"
    /\ areq[r].pc = "pipeline"
    /\ kv' = DelKeys(kv, areq[r].ids)
    /\ usets' = DelSet(usets, areq[r].user.ID)
    /\ areq' = MarkSessionsStale(areq, r, [areq[r] EXCEPT !.pc = "userdel", !.ids = {}], areq[r].ids)
    /\ aresp' = NoAResp
    /\ UNCHANGED <<now, users, nextUID, owner>>

\* authService.DeleteUser: userRepo.Delete
UserDelete(r) ==
    /\ OnlyAuth
    /\ Alive
    /\ areq[r].op = "DeleteUser"
    /\ areq[r].pc = "userdel"
    /\ LET d == UserDeleteOne(users, areq[r].user.ID)
       IN  /\ users' = d.users
           /\ aresp' = AResp("DeleteUser", EmptyToken, d.err, areq[r].user.ID, FALSE)
    /\ areq' = [areq EXCEPT ![r] = AIdle]
    /\ UNCHANGED <<now, nextUID, kv, usets, owner>>

\* What ChangePassword returned
PwResp(e, uid, old, new) ==
    [AResp("ChangePassword", EmptyToken, e, uid, FALSE) EXCEPT !.old = old, !.new = new]

\* authService.ChangePassword up to User.UpdatePassword
ChangePasswordFind(r) ==
    /\ OnlyAuth
    /\ Alive
    /\ FreeAuthSlot(r)
    /\ \E userID \in UserIDInputs, oldPassword \in NewPasswords, newPassword \in NewPasswords :
         IF oldPassword = "" \/ newPassword = ""
         THEN Answer(PwResp("old password and new password are required", userID, oldPassword, newPassword))
         ELSE IF Len(newPassword) < 6
         THEN Answer(PwResp("new password must be at least 6 characters long", userID, oldPassword, newPassword))
         ELSE LET f == UserFindByID(users, userID)
              IN  IF f.err # ""
                  THEN Answer(PwResp(f.err, userID, oldPassword, newPassword))
                  ELSE IF ~ValidatePassword(f.user, oldPassword)
                  THEN Answer(PwResp("invalid old password", userID, oldPassword, newPassword))
                  ELSE LET n == UpdatePassword(f.user, newPassword)
                       IN  IF n.err # ""
                           THEN Answer(PwResp(n.err, userID, oldPassword, newPassword))
                           ELSE GoOn(r, [AIdle EXCEPT !.op = "ChangePassword", !.pc = "update",
                                                      !.user = n.user, !.old = oldPassword,
                                                      !.new = newPassword])

\* authService.ChangePassword: userRepo.Update
ChangePasswordUpdate(r) ==
    /\ OnlyAuth
    /\ Alive
    /\ areq[r].op = "ChangePassword"
    /\ areq[r].pc = "update"
    /\ LET d == UserUpdate(users, areq[r].user)
       IN  /\ users' = d.users
           /\ aresp' = PwResp(d.err, areq[r].user.ID, areq[r].old, areq[r].new)
    /\ areq' = [areq EXCEPT ![r] = AIdle]
    /\ UNCHANGED <<now, nextUID, kv, usets, owner>>

\* GameHandlers.CreateGameHandler behind RequireAuth: the handler looks the
\* user ID up in the request context and calls the game service with it.
CreateGameHandler(r) ==
    /\ Alive
    /\ areq[r].pc = "handler"
    /\ LET v == CtxValue(areq[r].ctx, HandlerKey)
           uid == areq[r].sess.UserID
       IN  IF ~v.ok
           THEN /\ aresp' = HResp(areq[r].sid, 401, "User not authenticated", uid, NilObjectID)
                /\ UNCHANGED varsGame
           ELSE /\ CreateGameCall(v.val)
                /\ aresp' = HResp(areq[r].sid, IF resp'.err = "" THEN 201 ELSE 400,
                                  resp'.err, uid, v.val)
    /\ areq' = [areq EXCEPT ![r] = AIdle]
    /\ UNCHANGED <<now, users, nextUID, kv, usets, owner>>
    /\ UNCHANGED <<varsDomain, varsHttp>>

(***************************************************************************)
(* Specifications.                                                         *)
(***************************************************************************)
(***************************************************************************)
(* SpecList: the listings of the game service.  A cursor of Find gives the *)
(* matching documents in the order of their insertion, which is the order  *)
(* of their IDs here.  Find and the count that follows it read the         *)
(* collection in one step.                                                 *)
(***************************************************************************)
Pages == 1..MaxPage
Limits == 1..MaxLimit

RECURSIVE Cursor(_, _)
Cursor(coll, ids) ==
    IF ids = {} THEN <<>>
    ELSE LET first == CHOOSE i \in ids : \A j \in ids : i <= j
         IN  <<coll[first]>> \o Cursor(coll, ids \ {first})

\* gameRepository.FindByPlayerID
FindByPlayerID(coll, playerID) ==
    Cursor(coll, {id \in GameIDs : coll[id] # NoGame
                      /\ (coll[id].WhitePlayer = playerID \/ coll[id].BlackPlayer = playerID)})

\* gameRepository.FindByStatus
FindByStatus(coll, status) ==
    Cursor(coll, {id \in GameIDs : coll[id] # NoGame /\ coll[id].Status = status})

\* gameRepository.CountByPlayer
CountByPlayer(coll, playerID) ==
    Cardinality({id \in GameIDs : coll[id] # NoGame
                     /\ (coll[id].WhitePlayer = playerID \/ coll[id].BlackPlayer = playerID)})

\* gameRepository.CountByStatus
CountByStatus(coll, status) ==
    Cardinality({id \in GameIDs : coll[id] # NoGame /\ coll[id].Status = status})

\* services.GameListResponse
GameListResponse(op, p, games, total, page, limit) ==
    [Resp(op, "", NilObjectID, p) EXCEPT !.Games = games, !.Total = total,
                                          !.Page = page, !.Limit = limit]

\* gameService.ListPlayerGames
ListPlayerGames ==
    /\ OnlyGame
    /\ \E playerID \in PlayerIDs, page \in Pages, limit \in Limits :
         resp' = IF playerID = NilObjectID
                 THEN Resp("ListPlayerGames", "player ID is required", NilObjectID, NilObjectID)
                 ELSE GameListResponse("ListPlayerGames", playerID,
                                       FindByPlayerID(collection, playerID),
                                       CountByPlayer(collection, playerID), page, limit)
    /\ UNCHANGED <<collection, nextID, inflight>>

\* gameService.ListWaitingGames
ListWaitingGames ==
    /\ OnlyGame
    /\ \E page \in Pages, limit \in Limits :
         resp' = GameListResponse("ListWaitingGames", NilObjectID,
                                  FindByStatus(collection, GameStatusWaiting),
                                  CountByStatus(collection, GameStatusWaiting), page, limit)
    /\ UNCHANGED <<collection, nextID, inflight>>

\* gameService.ListActiveGames
ListActiveGames ==
    /\ OnlyGame
    /\ \E page \in Pages, limit \in Limits :
         resp' = GameListResponse("ListActiveGames", NilObjectID,
                                  FindByStatus(collection, GameStatusActive),
                                  CountByStatus(collection, GameStatusActive), page, limit)
    /\ UNCHANGED <<collection, nextID, inflight>>

(***************************************************************************)
(* SpecRoutes: the router of the protected game routes, a gorilla/mux       *)
(* subrouter under /api/game.  A path is the sequence of its segments below *)
(* the prefix.  A route matches a request when its template matches the     *)
(* path and its method is the request's; the router gives the request to    *)
(* the first route that matches, in the order of registration.  A request   *)
(* whose path matches only routes of another method gets 405, a request     *)
(* that no template matches is left to the routes behind the subrouter.     *)
(***************************************************************************)
Methods == {"GET", "POST"}
Segments == {"create", "join", "my-games", "waiting", "active", "stats",
             "move", "resign", "history", "64a1"}
Paths == UNION {[1..n -> Segments] : n \in 1..MaxPathLen}

Lit(name) == [kind |-> "lit", name |-> name]
Var(name) == [kind |-> "var", name |-> name]

RouteOf(method, template, handler) == [method |-> method, template |-> template, handler |-> handler]

\* Server.registerGameRoutes: the routes in the order of their registration
GameRoutes ==
    << RouteOf("POST", <<Lit("create")>>, "CreateGameHandler"),
       RouteOf("POST", <<Lit("join"), Var("gameId")>>, "JoinGameHandler"),
       RouteOf("GET", <<Var("gameId")>>, "GetGameHandler"),
       RouteOf("POST", <<Var("gameId"), Lit("move")>>, "MoveHandler"),
       RouteOf("POST", <<Var("gameId"), Lit("resign")>>, "ResignGameHandler"),
       RouteOf("GET", <<Var("gameId"), Lit("history")>>, "GetGameHistoryHandler"),
       RouteOf("GET", <<Lit("my-games")>>, "ListPlayerGamesHandler"),
       RouteOf("GET", <<Lit("waiting")>>, "ListWaitingGamesHandler"),
       RouteOf("GET", <<Lit("active")>>, "ListActiveGamesHandler"),
       RouteOf("GET", <<Lit("stats")>>, "GetPlayerStatsHandler") >>

\* A template segment {name} matches every non-empty segment.
SegmentMatches(t, segment) == IF t.kind = "var" THEN segment # "" ELSE segment = t.name

TemplateMatches(template, path) ==
    /\ Len(template) = Len(path)
    /\ \A i \in 1..Len(template) : SegmentMatches(template[i], path[i])

\* mux.Vars(r)["gameId"] of a request the route was matched to
GameIdVar(template, path) ==
    IF \E i \in 1..Len(template) : template[i] = Var("gameId")
    THEN path[CHOOSE i \in 1..Len(template) : template[i] = Var("gameId")]
    ELSE ""

NoRoute == [method |-> "", path |-> <<>>, handler |-> "", gameId |-> ""]

\* mux.Router.Match over the routes table
Match(table, method, path) ==
    LET hits == {i \in 1..Len(table) :
                    table[i].method = method /\ TemplateMatches(table[i].template, path)}
        first == CHOOSE i \in hits : \A j \in hits : i <= j
    IN  IF hits # {}
        THEN [method |-> method, path |-> path, handler |-> table[first].handler,
              gameId |-> GameIdVar(table[first].template, path)]
        ELSE IF \E i \in 1..Len(table) : TemplateMatches(table[i].template, path)
        THEN [method |-> method, path |-> path, handler |-> "methodNotAllowed", gameId |-> ""]
        ELSE [method |-> method, path |-> path, handler |-> "notFound", gameId |-> ""]

\* A request to /api/game/<path> is given to its handler.
Dispatch ==
    /\ OnlyHttp
    /\ \E method \in Methods, path \in Paths :
          routed' = Match(GameRoutes, method, path)

vars == <<g, last, collection, nextID, inflight, resp,
         now, users, nextUID, kv, usets, owner, areq, aresp, routed>>

Init ==
    /\ g = NoGame
    /\ last = NoCall
    /\ collection = [id \in GameIDs |-> NoGame]
    /\ nextID = 1
    /\ inflight = [r \in Reqs |-> Idle]
    /\ resp = NoResp
    /\ now = 0
    /\ users = {}
    /\ nextUID = 1
    /\ kv = [s \in SessionIDs |-> NoSession]
    /\ usets = [u \in UserIDs |-> NoSet]
    /\ owner = [s \in SessionIDs |-> NilObjectID]
    /\ areq = [r \in AuthReqs |-> AIdle]
    /\ aresp = NoAResp
    /\ routed = NoRoute

NextDomain ==
    \/ DomNewGame
    \/ DomJoinGame
    \/ DomMakeMove
    \/ DomResignGame
    \/ DomFinishGame

Next ==
    \/ CreateGame
    \/ RepoSaveNew
    \/ \E r \in Reqs : JoinGameFind(r)
    \/ \E r \in Reqs : MakeMoveFind(r)
    \/ \E r \in Reqs : ResignGameFind(r)
    \/ \E r \in Reqs : GameUpdate(r)
    \/ GetGame
    \/ GetGameHistory

NextAuth ==
    \/ Tick
    \/ \E r \in SeqReqs : SignupCheck(r)
    \/ \E r \in SeqReqs : SignupSave(r)
    \/ \E r \in SeqReqs : SigninFind(r)
    \/ \E r \in SeqReqs : SessionCreate(r)
    \/ \E r \in SeqReqs : ValidateSession(r)
    \/ \E r \in SeqReqs : RequireAuth(r)
    \/ \E r \in SeqReqs : RefreshSession(r)
    \/ \E r \in SeqReqs : Logout(r)
    \/ \E r \in SeqReqs : DeleteExpiredRead(r)
    \/ \E r \in SeqReqs : ValidateIsExpired(r)
    \/ \E r \in SeqReqs : RefreshExpire(r)
    \/ \E r \in SeqReqs : DeletePipeline(r)
    \/ \E r \in SeqReqs : CreateGameHandler(r)
    \/ \E r \in SeqReqs : DeleteUser(r)
    \/ \E r \in SeqReqs : DeleteByUserIDPipeline(r)
    \/ \E r \in SeqReqs : UserDelete(r)

Spec == Init /\ [][Next]_vars

\* The requests of Signup and Signin, interleaved at their accesses to MongoDB
\* and Redis.
NextUsers ==
    \/ \E r \in AuthReqs : SignupCheck(r)
    \/ \E r \in AuthReqs : SignupSave(r)
    \/ \E r \in AuthReqs : SigninFind(r)
    \/ \E r \in AuthReqs : SessionCreate(r)

SpecUsers == Init /\ [][NextUsers]_vars

\* The requests of Signup, Signin and DeleteUser, interleaved at their accesses
\* to MongoDB and Redis.
NextSessions ==
    \/ \E r \in AuthReqs : SignupCheck(r)
    \/ \E r \in AuthReqs : SignupSave(r)
    \/ \E r \in AuthReqs : SigninFind(r)
    \/ \E r \in AuthReqs : SessionCreate(r)
    \/ \E r \in AuthReqs : DeleteUser(r)
    \/ \E r \in AuthReqs : DeleteByUserIDPipeline(r)
    \/ \E r \in AuthReqs : UserDelete(r)

SpecSessions == Init /\ [][NextSessions]_vars

\* Signup and Signin, one request at a time, with a session store that may fail
NextSignup ==
    \/ \E r \in SeqReqs : SignupCheck(r)
    \/ \E r \in SeqReqs : SignupSave(r)
    \/ \E r \in SeqReqs : SigninFind(r)
    \/ \E r \in SeqReqs : SessionCreate(r)
    \/ \E r \in SeqReqs : SessionSaveFails(r)

SpecSignup == Init /\ [][NextSignup]_vars

\* Signup, Signin and ChangePassword, one request at a time
NextPassword ==
    \/ \E r \in SeqReqs : SignupCheck(r)
    \/ \E r \in SeqReqs : SignupSave(r)
    \/ \E r \in SeqReqs : SigninFind(r)
    \/ \E r \in SeqReqs : SessionCreate(r)
    \/ \E r \in SeqReqs : ChangePasswordFind(r)
    \/ \E r \in SeqReqs : ChangePasswordUpdate(r)

SpecPassword == Init /\ [][NextPassword]_vars

NextList ==
    \/ CreateGame
    \/ RepoSaveNew
    \/ \E r \in Reqs : JoinGameFind(r)
    \/ \E r \in Reqs : GameUpdate(r)
    \/ ListPlayerGames
    \/ ListWaitingGames
    \/ ListActiveGames

SpecList == Init /\ [][NextList]_vars

NextRoutes ==
    \/ Dispatch

SpecRoutes == Init /\ [][NextRoutes]_vars

SpecAuth == Init /\ [][NextAuth]_vars

SpecDomain == Init /\ [][NextDomain]_vars

(***************************************************************************)
(* Claims about the Game entity and the game service.                      *)
(***************************************************************************)

\* C1: after CreateGame returns success with game ID g, FindByID(g) finds a
\* game with status waiting, the creator as white player, white to move and
\* no moves.
C1_CreatedGameIsStored ==
    (resp.op = "CreateGame" /\ resp.err = "") =>
        LET f == FindByID(collection, resp.GameID)
        IN  /\ f.err = ""
            /\ f.g.Status = GameStatusWaiting
            /\ f.g.WhitePlayer = resp.PlayerID
            /\ f.g.CurrentTurn = "white"
            /\ f.g.Moves = <<>>

\* The player whose colour is in CurrentTurn.
InTurn(gm, p) ==
    /\ gm.Status = GameStatusActive
    /\ \/ gm.CurrentTurn = "white" /\ gm.WhitePlayer = p
       \/ gm.CurrentTurn = "black" /\ gm.BlackPlayer = p

\* C2: Game.MakeMove(p, ...) succeeds only when the game is active and p is
\* the player of the colour in CurrentTurn; a call by anyone else returns an
\* error and appends no move.
C2_MoveOnlyInTurn ==
    last.op = "MakeMove" =>
        /\ last.err = "" => InTurn(last.pre, last.PlayerID)
        /\ ~InTurn(last.pre, last.PlayerID) => last.err # "" /\ g.Moves = last.pre.Moves

\* C2 witness: the black player of an active game moved while it was white's
\* turn, and was refused.
C2_Witness ==
    /\ last.op = "MakeMove"
    /\ last.pre.Status = GameStatusActive
    /\ last.pre.CurrentTurn = "white"
    /\ last.PlayerID = last.pre.BlackPlayer
    /\ last.err = "it's not your turn"

PlayersAssigned(gm) ==
    /\ gm.Status \in {GameStatusActive, GameStatusFinished} =>
           gm.WhitePlayer # NilObjectID /\ gm.BlackPlayer # NilObjectID
    /\ gm.Status = GameStatusWaiting =>
           gm.WhitePlayer # NilObjectID /\ gm.BlackPlayer = NilObjectID

\* C3: every stored game, and every copy a request is about to write, that is
\* active or finished has both players, and one that is waiting has only the
\* white player.
C3_ActiveHasBothPlayers ==
    /\ \A id \in GameIDs : collection[id] # NoGame => PlayersAssigned(collection[id])
    /\ \A r \in Reqs : inflight[r] # Idle => PlayersAssigned(inflight[r].ent)

\* C3 witness: a stored game went waiting -> active -> finished.
C3_Witness ==
    \E id \in GameIDs :
        /\ collection[id] # NoGame
        /\ collection[id].Status = GameStatusFinished
        /\ collection[id].BlackPlayer # NilObjectID

DistinctPlayers(gm) == gm.BlackPlayer # NilObjectID => gm.WhitePlayer # gm.BlackPlayer

\* C4: JoinGame by the game's white player returns an error and leaves the
\* game waiting; the white and the black player of a game are always
\* different users.
C4_NoSelfJoin ==
    /\ \A id \in GameIDs : collection[id] # NoGame => DistinctPlayers(collection[id])
    /\ \A r \in Reqs : inflight[r] # Idle => DistinctPlayers(inflight[r].ent)
    /\ (resp.op = "JoinGame" /\ resp.PlayerID # NilObjectID
            /\ collection[resp.GameID].WhitePlayer = resp.PlayerID) => resp.err # ""
    /\ (resp.op = "JoinGame" /\ resp.err = "player cannot play against themselves") =>
            /\ collection[resp.GameID].Status = GameStatusWaiting
            /\ collection[resp.GameID].BlackPlayer = NilObjectID

\* C4 witness: the white player of a waiting game tried to join it.
C4_Witness ==
    /\ resp.op = "JoinGame"
    /\ resp.err = "player cannot play against themselves"
    /\ collection[resp.GameID].WhitePlayer = resp.PlayerID

\* C5: the status of a Game only moves waiting -> active (by JoinGame) and
\* active -> finished (by ResignGame or FinishGame); every method returns an
\* error on a finished game and leaves it as it is; abandoned is never reached.
C5_StatusLifecycle ==
    [][ /\ (g = NoGame /\ g' # NoGame) => g'.Status = GameStatusWaiting
        /\ g # NoGame =>
            /\ g'.Status # GameStatusAbandoned
            /\ g'.Status # g.Status =>
                  \/ /\ g.Status = GameStatusWaiting
                     /\ g'.Status = GameStatusActive
                     /\ last'.op = "JoinGame"
                  \/ /\ g.Status = GameStatusActive
                     /\ g'.Status = GameStatusFinished
                     /\ last'.op \in {"ResignGame", "FinishGame"}
            /\ g.Status = GameStatusFinished => (last'.err # "" /\ g' = g)
      ]_vars

\* C5 witness: a method was called on a finished game and refused.
C5_Witness ==
    /\ g # NoGame
    /\ g.Status = GameStatusFinished
    /\ last.pre # NoGame
    /\ last.pre.Status = GameStatusFinished
    /\ last.op = "JoinGame"
    /\ last.err # ""

\* C6 as claimed: every write to a game document leaves the stored move list
\* a prefix of the new one, whatever the interleaving of the requests.
C6_AppendOnlyAlways ==
    [][ \A id \in GameIDs :
            collection[id] # NoGame => IsPrefix(collection[id].Moves, collection'[id].Moves)
      ]_vars

\* C6 amended: a write by a request whose copy is not stale (no other write to
\* the document since the request read it) leaves the stored move list a
\* prefix of the new one.
C6_AppendOnlyWhenNotStale ==
    [][ \A r \in Reqs :
            (inflight[r] # Idle /\ ~inflight[r].stale /\ inflight'[r] = Idle) =>
                IsPrefix(collection[inflight[r].ent.ID].Moves,
                         collection'[inflight[r].ent.ID].Moves)
      ]_vars

\* C6 witness: a move was written and reported while another request holds a
\* copy of the same game read before that write.
C6_Witness ==
    /\ resp.op = "MakeMove"
    /\ resp.err = ""
    /\ Len(collection[resp.GameID].Moves) >= 1
    /\ \E r \in Reqs : inflight[r].op = "MakeMove" /\ inflight[r].stale

(***************************************************************************)
(* Claims about the sessions and the protected routes.                     *)
(***************************************************************************)

\* C7: a request to a protected game route that passed RequireAuth with a
\* valid session of user u is answered by the handler calling the game
\* service with PlayerID = u, not with 401.
C7_RouteIdentifiesPlayer ==
    (aresp.op = "CreateGameRoute" /\ aresp.UserID # NilObjectID) =>
        (aresp.status # 401 /\ aresp.PlayerID = aresp.UserID)

\* C8: ValidateSession(s) returns a user ID only for a session ID that was
\* issued, to that user, at a time not after the session's ExpiresAt, and for
\* a session that is stored (or was stored when the request read it and was
\* deleted while the request was in flight); an error comes with no user ID.
C8_ValidOnlyWhileStoredAndFresh ==
    /\ (aresp.op = "ValidateSession" /\ aresp.err = "") =>
          /\ aresp.sid \in SessionIDs
          /\ owner[aresp.sid] # NilObjectID
          /\ aresp.UserID = owner[aresp.sid]
          /\ IF kv[aresp.sid] # NoSession
             THEN now <= kv[aresp.sid].ExpiresAt /\ kv[aresp.sid].UserID = aresp.UserID
             ELSE aresp.stale
    /\ (aresp.op = "ValidateSession" /\ aresp.err # "") => aresp.UserID = NilObjectID

\* C8 witness: ValidateSession returned the owner of a stored session at the
\* last moment before its expiry.
C8_Witness ==
    /\ aresp.op = "ValidateSession"
    /\ aresp.err = ""
    /\ aresp.UserID # NilObjectID
    /\ kv[aresp.sid] # NoSession
    /\ now = kv[aresp.sid].ExpiresAt

\* C9: a ValidateSession(s) called while s is stored, after a Refresh of s
\* succeeded at time t and before t + SessionTTL, gets the session from
\* FindByID (and not the clean-up of an expired session).
C9_RefreshExtends ==
    [][ \A r \in AuthReqs, s \in SessionIDs :
            ( /\ areq[r] = AIdle
              /\ areq'[r].op = "ValidateSession"
              /\ areq'[r].sid = s
              /\ kv[s] # NoSession
              /\ kv[s].RefreshedAt >= 0
              /\ now < kv[s].RefreshedAt + SessionTTL )
            => areq'[r].pc = "held"
      ]_vars

\* C10: once a request whose read found the key of session s present with its
\* ExpiresAt passed has answered "session expired", the key of s is gone and
\* s is not a member of the user_sessions set of its owner.
C10_ExpiredSessionDeleted ==
    (aresp.err = "session expired" /\ aresp.depth >= 1) =>
        /\ kv[aresp.sid] = NoSession
        /\ aresp.sid \notin usets[owner[aresp.sid]].members

\* C11: once DeleteUser(u) has returned success, the requests coming one at a
\* time, no key of a session issued to u is stored, so FindByID (and with it
\* ValidateSession) fails for every session ID issued to u, the set
\* user_sessions:<u> is gone and so is the user document.
C11_DeleteUserRemovesSessions ==
    (aresp.op = "DeleteUser" /\ aresp.err = "") =>
        /\ \A s \in SessionIDs :
              owner[s] = aresp.UserID =>
                  /\ kv[s] = NoSession
                  /\ SessionFindByID(kv, s, now).err # ""
        /\ usets[aresp.UserID] = NoSet
        /\ ~\E u \in users : u.ID = aresp.UserID

\* C11 witness: DeleteUser returned success for a user with two sessions,
\* before any of them could expire.
C11_Witness ==
    /\ aresp.op = "DeleteUser"
    /\ aresp.err = ""
    /\ now = 0
    /\ Cardinality({s \in SessionIDs : owner[s] = aresp.UserID}) = 2

\* C12: once Logout(s) has returned success for an issued session s, the key
\* of s is gone, so FindByID (and with it ValidateSession and GetCurrentUser)
\* fails for s, and s is no member of the set user_sessions of its owner.
C12_LogoutRemovesSession ==
    (aresp.op = "Logout" /\ aresp.err = "" /\ aresp.sid \in SessionIDs) =>
        (owner[aresp.sid] # NilObjectID =>
            /\ SessionFindByID(kv, aresp.sid, now).err # ""
            /\ aresp.sid \notin usets[owner[aresp.sid]].members)

\* C13: no two stored users have the same username, however the Signup
\* requests interleave between ExistsByUsername and the insert: a Signup that
\* is past userRepo.Save, or has returned success, has its own document
\* stored under its username, and the Save of a Signup whose username has been
\* taken meanwhile returns "username already exists".
C13_UsernamesUnique ==
    /\ \A u, v \in users : u.Username = v.Username => u = v
    /\ \A r \in AuthReqs :
          /\ (areq[r].op = "Signup" /\ areq[r].pc = "session") => areq[r].user \in users
          /\ (areq[r].op = "Signup" /\ areq[r].pc = "save"
                /\ ExistsByUsername(users, areq[r].user.Username)) =>
                 /\ areq[r].user \notin users
                 /\ UserSave(users, areq[r].user).err = "username already exists"
    /\ (aresp.op = "Signup" /\ aresp.err = "") =>
          \E u \in users : u.ID = aresp.UserID

\* C13 witness: two Signup requests passed ExistsByUsername, one user is
\* stored and the Save of the other request has returned "username already exists".
C13_Witness ==
    /\ nextUID = 3
    /\ Cardinality(users) = 1
    /\ \A r \in AuthReqs : areq[r].pc # "save"
    /\ aresp.op = "Signup"
    /\ aresp.err = "username already exists"

\* What a successful Signup or Signin has stored: the session it returns is
\* stored for the user it returns, who is a stored user, and expires
\* SessionTTL from now.
SessionBound ==
    (aresp.op \in {"Signup", "Signin"} /\ aresp.err = "") =>
        /\ aresp.sid \in SessionIDs
        /\ owner[aresp.sid] = aresp.UserID
        /\ kv[aresp.sid].UserID = aresp.UserID
        /\ kv[aresp.sid].ExpiresAt = now + SessionTTL
        /\ \E u \in users : u.ID = aresp.UserID

\* What ValidateSession(s) returns while s is stored and its TTL has not elapsed
ValidatesOwner ==
    ( /\ aresp.op = "ValidateSession"
      /\ aresp.sid \in SessionIDs
      /\ kv[aresp.sid] # NoSession
      /\ now <= kv[aresp.sid].ExpiresAt ) =>
        /\ aresp.err = ""
        /\ aresp.UserID = owner[aresp.sid]

\* C14: a successful Signup or Signin returns a session stored for the user
\* who signed up or in, with a TTL of SessionTTL; the key of a session goes
\* away only when that TTL has elapsed, in a Logout of the session or in a
\* DeleteUser of its user; and ValidateSession(s) returns the owner of s while
\* the key is stored and the TTL has not elapsed.
C14_SessionBoundToUser ==
    [][ /\ SessionBound'
        /\ ValidatesOwner'
        /\ \A s \in SessionIDs :
              (kv[s] # NoSession /\ kv'[s] # kv[s]) =>
                  \/ kv'[s] = [kv[s] EXCEPT !.exp = now + SessionTTL, !.RefreshedAt = now]
                  \/ /\ kv'[s] = NoSession
                     /\ \/ now' > kv[s].ExpiresAt
                        \/ \E r \in AuthReqs : areq[r].op = "Logout" /\ areq[r].sid = s
                        \/ \E r \in AuthReqs : areq[r].op = "DeleteUser" /\ s \in areq[r].ids
      ]_vars

\* C14 witness: ValidateSession returned the second user for the session that
\* user's Signup got, at the last moment before the TTL elapses.
C14_Witness ==
    /\ aresp.op = "ValidateSession"
    /\ aresp.err = ""
    /\ aresp.UserID = 2
    /\ owner[aresp.sid] = 2
    /\ kv[aresp.sid] # NoSession
    /\ now = kv[aresp.sid].ExpiresAt
    /\ now = MaxTime

\* C15: GET /api/game/my-games, /waiting, /active and /stats are given to
\* ListPlayerGamesHandler, ListWaitingGamesHandler, ListActiveGamesHandler
\* and GetPlayerStatsHandler.
C15_ListingRoutesReachHandlers ==
    (routed.method = "GET" /\ Len(routed.path) = 1) =>
        /\ routed.path[1] = "my-games" => routed.handler = "ListPlayerGamesHandler"
        /\ routed.path[1] = "waiting" => routed.handler = "ListWaitingGamesHandler"
        /\ routed.path[1] = "active" => routed.handler = "ListActiveGamesHandler"
        /\ routed.path[1] = "stats" => routed.handler = "GetPlayerStatsHandler"

\* C16: GetGame(g, p) and GetGameHistory(g, p) return the stored game, or its
\* moves, only when p is the white or the black player of g; for every other
\* player of a stored game they return "player is not authorized to view this
\* game" and neither a game nor moves.
C16_VisibleOnlyToPlayers ==
    resp.op \in {"GetGame", "GetGameHistory"} =>
        /\ resp.err = "" =>
              /\ resp.GameID \in GameIDs
              /\ resp.PlayerID \in {collection[resp.GameID].WhitePlayer,
                                    collection[resp.GameID].BlackPlayer}
              /\ resp.op = "GetGame" => resp.Game = collection[resp.GameID]
              /\ resp.op = "GetGameHistory" => resp.Moves = collection[resp.GameID].Moves
        /\ resp.err # "" => (resp.Game = NoGame /\ resp.Moves = <<>>)
        /\ ( /\ resp.GameID \in GameIDs
             /\ collection[resp.GameID] # NoGame
             /\ resp.PlayerID # NilObjectID
             /\ resp.PlayerID \notin {collection[resp.GameID].WhitePlayer,
                                      collection[resp.GameID].BlackPlayer} ) =>
              resp.err = "player is not authorized to view this game"

\* C16 witness: GetGameHistory refused the moves of a game with a move in it
\* to a player who is not in the game.
C16_Witness ==
    /\ resp.op = "GetGameHistory"
    /\ resp.err = "player is not authorized to view this game"
    /\ collection[resp.GameID] # NoGame
    /\ Len(collection[resp.GameID].Moves) >= 1
    /\ resp.PlayerID \notin {collection[resp.GameID].WhitePlayer, collection[resp.GameID].BlackPlayer}

\* C17: ResignGame(p) on an active game finishes it with the opponent of p as
\* the winner, black_wins when p is the white player and white_wins when p is
\* the black player, whoever is to move; called by somebody who is no player
\* of the game, or on a game that is not active, it returns an error and
\* leaves the game as it was.
C17_ResignGivesOpponentTheGame ==
    last.op = "ResignGame" =>
        /\ (last.pre.Status = GameStatusActive /\ last.PlayerID = last.pre.WhitePlayer) =>
              /\ last.err = ""
              /\ g = [last.pre EXCEPT !.Status = GameStatusFinished,
                                      !.Result = GameResultBlackWins, !.FinishedAt = "set"]
        /\ (last.pre.Status = GameStatusActive /\ last.PlayerID = last.pre.BlackPlayer) =>
              /\ last.err = ""
              /\ g = [last.pre EXCEPT !.Status = GameStatusFinished,
                                      !.Result = GameResultWhiteWins, !.FinishedAt = "set"]
        /\ ( \/ last.pre.Status # GameStatusActive
             \/ last.PlayerID \notin {last.pre.WhitePlayer, last.pre.BlackPlayer} ) =>
              /\ last.err # ""
              /\ g = last.pre

\* C17 witness: the white player resigned while black was to move, and black won.
C17_Witness ==
    /\ last.op = "ResignGame"
    /\ last.err = ""
    /\ last.pre.CurrentTurn = "black"
    /\ last.PlayerID = last.pre.WhitePlayer
    /\ g.Result = GameResultBlackWins

\* C18: whatever methods were called on a game, its Board is the starting
\* position NewGame set; and MakeMove by the player to move on an active game
\* succeeds and appends the move, whatever its squares and whatever the
\* moves before it were.
C18_BoardNeverTouched ==
    /\ g # NoGame => g.Board = StartingFEN
    /\ (last.op = "MakeMove" /\ InTurn(last.pre, last.PlayerID)) =>
          /\ last.err = ""
          /\ Len(g.Moves) = Len(last.pre.Moves) + 1
          /\ SubSeq(g.Moves, 1, Len(last.pre.Moves)) = last.pre.Moves
          /\ g.Board = last.pre.Board

\* C18 witness: black moved a piece from e2 to e4 right after white had
\* moved one from e2 to e4, and the board is the starting position.
C18_Witness ==
    /\ last.op = "MakeMove"
    /\ last.err = ""
    /\ Len(g.Moves) = 2
    /\ g.Moves[1].From = "e2" /\ g.Moves[1].To = "e4"
    /\ g.Moves[2].From = "e2" /\ g.Moves[2].To = "e4"
    /\ g.Board = StartingFEN

\* C19: sessionRepo.Exists(s) is true exactly in the states in which
\* FindByID(s) returns the session, that is, when s is stored and not expired.
C19_ExistsIffFound ==
    \A s \in Tokens : SessionExists(kv, s) <=> (SessionFindByID(kv, s, now).err = "")

\* The games a listing matches, as the collection has them
Matching ==
    IF resp.op = "ListPlayerGames" THEN FindByPlayerID(collection, resp.PlayerID)
    ELSE IF resp.op = "ListWaitingGames" THEN FindByStatus(collection, GameStatusWaiting)
    ELSE FindByStatus(collection, GameStatusActive)

\* C20: a listing called with (page, limit) returns at most limit games, the
\* page-th slice of the matching games, and Total is the number of all
\* matching games.
C20_ListingsPaginated ==
    (resp.op \in {"ListPlayerGames", "ListWaitingGames", "ListActiveGames"} /\ resp.err = "") =>
        /\ Len(resp.Games) <= resp.Limit
        /\ resp.Games = SubSeq(Matching, (resp.Page - 1) * resp.Limit + 1,
                               IF resp.Page * resp.Limit <= Len(Matching)
                               THEN resp.Page * resp.Limit ELSE Len(Matching))
        /\ resp.Total = Len(Matching)

\* The user ChangePassword was called for, as stored before the step
Target == UserFindByID(users, aresp'.UserID).user

\* ChangePassword has answered in this step.
PwAnswered == aresp'.op = "ChangePassword"

\* ChangePassword was called with an old password that validates against the
\* stored hash and a new password of at least 6 characters.
PwAcceptable ==
    /\ UserFindByID(users, aresp'.UserID).err = ""
    /\ ValidatePassword(Target, aresp'.old)
    /\ aresp'.old # ""
    /\ Len(aresp'.new) >= 6

\* The stored hash is replaced exactly when the call is acceptable, every
\* other call returns an error and leaves the users as they were, and after
\* a success the new password signs in.
PwReplacedWhenAcceptable ==
    /\ PwAcceptable <=> aresp'.err = ""
    /\ aresp'.err # "" => users' = users
    /\ aresp'.err = "" =>
          /\ users' = (users \ {Target}) \cup {[Target EXCEPT !.Password = Hash(aresp'.new)]}
          /\ CanSignin(users', Target.Username, aresp'.new)

\* C21 as the spec states it: after every successful ChangePassword the old
\* password no longer signs in.
C21_OldPasswordNeverSignsIn ==
    [][ PwAnswered =>
          /\ PwReplacedWhenAcceptable
          /\ aresp'.err = "" => ~CanSignin(users', Target.Username, aresp'.old)
      ]_vars

\* C21: ChangePassword(u, old, new) replaces the stored hash only when old
\* validates against it and new has at least 6 characters; every other call
\* returns an error and leaves the user record unchanged; after a success the
\* new password signs in, and the old one no longer does when it differs from
\* the new one.
C21_ChangePassword ==
    [][ PwAnswered =>
          /\ PwReplacedWhenAcceptable
          /\ (aresp'.err = "" /\ aresp'.new # aresp'.old) =>
                ~CanSignin(users', Target.Username, aresp'.old)
      ]_vars

\* C21 witness: the password was changed to another one, and changed back.
C21_Witness ==
    /\ aresp.op = "ChangePassword"
    /\ aresp.err = ""
    /\ aresp.old = "secret2"
    /\ aresp.new = "secret1"
    /\ CanSignin(users, "alice", "secret1")

\* C22: every call of FindByID and of Delete returns: no request gets so deep
\* into the calls between FindByID and Delete that it exhausts its stack.
C22_FindByIDAndDeleteReturn ==
    \A r \in AuthReqs : areq[r].pc # "overflow"

\* C23: in every stored game, however the requests on it interleave,
\* current_turn is white exactly when the number of stored moves is even, and
\* the stored moves are labelled white, black, white, ... from the first on.
C23_TurnAlternates ==
    \A id \in GameIDs :
        collection[id] # NoGame =>
            /\ collection[id].CurrentTurn \in {"white", "black"}
            /\ collection[id].CurrentTurn = "white" <=> Len(collection[id].Moves) % 2 = 0
            /\ \A i \in 1..Len(collection[id].Moves) :
                  collection[id].Moves[i].Player = IF i % 2 = 1 THEN "white" ELSE "black"

\* C23 witness: a game is stored with two moves while a MakeMove request
\* that read it before the last write still holds its copy.
C23_Witness ==
    \E id \in GameIDs, r \in Reqs :
        /\ collection[id] # NoGame
        /\ Len(collection[id].Moves) = 2
        /\ inflight[r].op = "MakeMove"
        /\ inflight[r].ent.ID = id
        /\ inflight[r].stale

\* C24: a game stored with status finished stays finished in every later
\* state of the store, however the requests on it interleave.
C24_FinishedStaysFinished ==
    [][ \A id \in GameIDs :
            (collection[id] # NoGame /\ collection[id].Status = GameStatusFinished) =>
                collection'[id].Status = GameStatusFinished
      ]_vars

\* C25: of the JoinGame requests of distinct users on a stored waiting game
\* at most one returns success: a JoinGame that returns success finds the
\* game still waiting in the store when it writes (or joined by its own
\* user), so no join of another user has been stored before it, and it leaves
\* its user as the stored black player.
C25_OneJoinSucceeds ==
    [][ (resp'.op = "JoinGame" /\ resp'.err = "" /\ resp'.GameID \in GameIDs) =>
            /\ \/ collection[resp'.GameID].Status = GameStatusWaiting
               \/ collection[resp'.GameID].BlackPlayer = resp'.PlayerID
            /\ collection'[resp'.GameID].BlackPlayer = resp'.PlayerID
      ]_vars

\* C26: in every stored game the fields result and finished_at are set
\* exactly when the status is finished.
C26_ResultIffFinished ==
    \A id \in GameIDs :
        collection[id] # NoGame =>
            /\ collection[id].Status = GameStatusFinished <=> collection[id].Result # ""
            /\ collection[id].Status = GameStatusFinished <=> collection[id].FinishedAt # "nil"

\* C27: a step in which JoinGame, MakeMove or ResignGame returns an error
\* issues no Update: the stored games are as before the call, and no request
\* is left holding an entity to write.
C27_RejectedChangesNothing ==
    [][ (resp'.op \in {"JoinGame", "MakeMove", "ResignGame"} /\ resp'.err # "") =>
            /\ collection' = collection
            /\ inflight' = inflight
      ]_vars

\* C27 witness: on a stored game with a move in it, a request of the player
\* who is not to move, or of somebody who is not in the game, was rejected
\* by the domain check.
C27_Witness ==
    /\ resp.op \in {"MakeMove", "ResignGame"}
    /\ resp.err \in {"it's not your turn", "player is not part of this game"}
    /\ resp.GameID \in GameIDs
    /\ Len(collection[resp.GameID].Moves) = 1

\* C28: every present key session:<id> of a user u has <id> as a member of a
\* present set user_sessions:<u>.
C28_KeyIsMemberOfOwnersSet ==
    \A s \in SessionIDs :
        kv[s] # NoSession =>
            /\ usets[kv[s].UserID] # NoSet
            /\ s \in usets[kv[s].UserID].members

\* C29: once the requests have completed, every stored session belongs to a
\* stored user: no session of a deleted user is left for ValidateSession to
\* return that user's ID.
C29_NoSessionOutlivesUser ==
    (\A r \in AuthReqs : areq[r] = AIdle) =>
        \A s \in SessionIDs :
            SessionFindByID(kv, s, now).err = "" =>
                \E u \in users : u.ID = kv[s].UserID

\* C30: a step in which Signup returns an error leaves the user store and
\* the session store as they are, and the user the call was to create is not
\* stored, so that its username is free for another Signup.
C30_FailedSignupCreatesNothing ==
    [][ (aresp'.op = "Signup" /\ aresp'.err # "") =>
            /\ users' = users
            /\ kv' = kv
            /\ usets' = usets
            /\ ~\E u \in users' : u.ID = aresp'.UserID
      ]_vars

====
